---- MODULE Spec2Model ----
(***************************************************************************)
(* The link provider of Zettlr (source/app/service-providers/links):       *)
(* the two link databases, report / remove, the inbound / outbound         *)
(* queries, and buildGraph with identifyComponents.                        *)
(***************************************************************************)
EXTENDS Naturals, Integers, Sequences, FiniteSets, TLC

\* ------------------------------------------------------------------ bounds
\* longest outboundLinks array handed to report
MaxLinks == 2
\* most resolved links held by the file database at any one time
MaxEdges == 2

\* most arcs of a graph handed to identifyComponents directly
MaxArcs == 3

\* longest directory name handed to sortDirectories
MaxNameLen == 2

\* ------------------------------------------------------- values and inputs
\* JavaScript's undefined, for an optional string
Undefined == "undefined"

NONE_COMPONENT == "Files"

\* the files that report their links
Paths == {"/n/a.md", "/n/b.md", "/n/c.md"}

\* raw link texts; "x" names no file
Tokens == {"a", "b", "x"}

\* the link arrays of the reports whose targets do not report themselves;
\* "d" names a file that never reports
TargetLinks == {<<>>, <<"b">>, <<"d">>}

\* the sourceID argument: omitted, the FSAL's empty default, or a real ID
SourceIDs == {Undefined, "", "X", "Y"}

\* the reports made when source IDs are in play: two files, three link arrays
IndexPaths == {"/n/a.md", "/n/b.md"}

IndexLinks == {<<>>, <<"a">>, <<"x", "b">>}

\* the files of the graphs handed to identifyComponents directly
GraphFiles == {"/n/a.md", "/n/b.md", "/n/c.md"}

SeqsUpTo(S, n) == UNION {[1..k -> S] : k \in 0..n}

\* fsal.findExact: the descriptor of the file a link text names, if any
FindExact(link) ==
  CASE link = "a" -> [found |-> TRUE, path |-> "/n/a.md"]
    [] link = "b" -> [found |-> TRUE, path |-> "/n/b.md"]
    [] link = "c" -> [found |-> TRUE, path |-> "/n/c.md"]
    [] link = "d" -> [found |-> TRUE, path |-> "/n/d.md"]
    [] OTHER      -> [found |-> FALSE, path |-> Undefined]

\* path.basename on the files above
Basename(file) ==
  CASE file = "/n/a.md" -> "a.md"
    [] file = "/n/b.md" -> "b.md"
    [] file = "/n/c.md" -> "c.md"
    [] file = "/n/d.md" -> "d.md"
    [] OTHER            -> file

\* `Component ${n}`
ComponentName(n) ==
  CASE n = 1 -> "Component 1"
    [] n = 2 -> "Component 2"
    [] n = 3 -> "Component 3"
    [] OTHER -> "Component 4"

\* --------------------------------------------------------------- the state
VARIABLES
  fileLinkDatabase,  \* Map<string, string[]>: sequence of [key, value] in insertion order
  idLinkDatabase,    \* Map<string, string[]>: the same, keyed by source ID
  last,              \* the call that ran last: its arguments, its broadcasts, its outcome
  firstReported,     \* history: the files in the order of their first report ever
  addedOrder,        \* history: the files in the order of their first report since their last removal
  idReporters,       \* history: per ID, the files that reported under it, the latest one last
  ownerLatest,       \* history: per ID, what its latest reporter resolved to in its own latest report
  idReported         \* history: per ID, what the latest report carrying that ID resolved to

vars == <<fileLinkDatabase, idLinkDatabase, last, firstReported, addedOrder, idReporters,
          ownerLatest, idReported>>

history == <<firstReported, addedOrder, idReporters, ownerLatest, idReported>>

\* ------------------------------------------------------- Map<string, ...>
MapKeys(map) == {map[i].key : i \in 1..Len(map)}

MapHas(map, key) == \E i \in 1..Len(map) : map[i].key = key

MapIndex(map, key) == CHOOSE i \in 1..Len(map) : map[i].key = key

MapGet(map, key) == map[MapIndex(map, key)].value

\* variant: setting an existing key moves it to the end
MapSetMovesLast(map, key, value) ==
  Append(SelectSeq(map, LAMBDA entry : entry.key # key), [key |-> key, value |-> value])

\* Map.prototype.set: an existing key keeps its place, a new key goes last
MapSet(map, key, value) ==
  IF MapHas(map, key)
    THEN [map EXCEPT ![MapIndex(map, key)].value = value]
    ELSE Append(map, [key |-> key, value |-> value])

\* the keys in iteration order
MapOrder(map) == [i \in 1..Len(map) |-> map[i].key]

\* Map.prototype.delete
MapDelete(map, key) == SelectSeq(map, LAMBDA entry : entry.key # key)

\* ------------------------------------------------------------------ report
\* the sourceID === '' normalisation at the top of report and remove
NormalizeID(sourceID) == IF sourceID = "" THEN Undefined ELSE sourceID

RECURSIVE ResolveFrom(_, _, _)
\* the loop over outboundLinks: push found.path for the links that are found
ResolveFrom(outboundLinks, i, resolved) ==
  IF i > Len(outboundLinks) THEN resolved
  ELSE LET found == FindExact(outboundLinks[i])
       IN ResolveFrom(outboundLinks, i + 1,
            IF found.found THEN Append(resolved, found.path) ELSE resolved)

\* variant: a link that is not found is pushed as undefined
ResolveKeepsMisses(outboundLinks) ==
  [i \in 1..Len(outboundLinks) |-> FindExact(outboundLinks[i]).path]

Resolve(outboundLinks) == ResolveFrom(outboundLinks, 1, <<>>)



\* the links on record for a file, none if it has no entry
retrieveOutboundOf(map, sourcePath) ==
  IF MapHas(map, sourcePath) THEN MapGet(map, sourcePath) ELSE <<>>

\* variant: the resolved links are added to those already on record
ReportFileAppends(map, sourcePath, resolved) ==
  MapSet(map, sourcePath, retrieveOutboundOf(map, sourcePath) \o resolved)

\* this._fileLinkDatabase.set(sourcePath, resolved)
ReportFile(map, sourcePath, resolved) == MapSet(map, sourcePath, resolved)

\* variant: an ID that is already a key keeps its links
ReportIDOnce(map, sourceID, resolved) ==
  IF sourceID # Undefined /\ ~MapHas(map, sourceID)
    THEN MapSet(map, sourceID, resolved) ELSE map

\* variant: the ID database is written without looking at sourceID
ReportIDAlways(map, sourceID, resolved) == MapSet(map, sourceID, resolved)

\* if (sourceID !== undefined) this._idLinkDatabase.set(sourceID, resolved)
ReportID(map, sourceID, resolved) ==
  IF sourceID # Undefined THEN MapSet(map, sourceID, resolved) ELSE map

NoResult == [kind |-> "void"]

\* vocabulary of the history variables
Has(seq, x) == \E i \in 1..Len(seq) : seq[i] = x

Without(seq, x) == SelectSeq(seq, LAMBDA y : y # x)

Latest(seq) == seq[Len(seq)]

RealID(sourceID) == sourceID # Undefined /\ sourceID # ""

NoGraph == [nodes |-> <<>>, links |-> <<>>]

\* the record kept of a call: what it was given, what it broadcast, what it gave back
Call(op, sourcePath, outboundLinks, sourceID, graph, broadcast, result) ==
  [op |-> op, sourcePath |-> sourcePath, outboundLinks |-> outboundLinks,
   sourceID |-> sourceID, graph |-> graph, broadcast |-> broadcast, result |-> result]


\* variant: the message goes out before the databases are written
BroadcastLinksEarly(filesBefore, idsBefore, filesAfter, idsAfter) ==
  <<[topic |-> "links", fileLinkDatabase |-> filesBefore, idLinkDatabase |-> idsBefore]>>

\* broadcastIpcMessage('links') as the last statement of report and remove:
\* the messages of the call, each with what the databases held when it went out
BroadcastLinks(filesBefore, idsBefore, filesAfter, idsAfter) ==
  <<[topic |-> "links", fileLinkDatabase |-> filesAfter, idLinkDatabase |-> idsAfter]>>

TotalEdges(map) ==
  LET RECURSIVE Sum(_)
      Sum(i) == IF i > Len(map) THEN 0 ELSE Len(map[i].value) + Sum(i + 1)
  IN Sum(1)

Report(sourcePath, outboundLinks, sourceID) ==
  LET id       == NormalizeID(sourceID)
      resolved == Resolve(outboundLinks)
      files    == ReportFile(fileLinkDatabase, sourcePath, resolved)
  IN /\ TotalEdges(files) <= MaxEdges
     /\ fileLinkDatabase' = files
     /\ idLinkDatabase' = ReportID(idLinkDatabase, id, resolved)
     /\ last' = Call("report", sourcePath, outboundLinks, sourceID, NoGraph,
                      BroadcastLinks(fileLinkDatabase, idLinkDatabase,
                                     fileLinkDatabase', idLinkDatabase'),
                      NoResult)
     /\ firstReported' = IF Has(firstReported, sourcePath)
                           THEN firstReported ELSE Append(firstReported, sourcePath)
     /\ addedOrder' = IF Has(addedOrder, sourcePath)
                           THEN addedOrder ELSE Append(addedOrder, sourcePath)
     /\ idReporters' = [k \in SourceIDs |->
                      IF RealID(sourceID) /\ k = sourceID
                        THEN Append(Without(idReporters[k], sourcePath), sourcePath)
                        ELSE idReporters[k]]
     /\ ownerLatest' = [k \in SourceIDs |->
                      IF idReporters'[k] # <<>> /\ Latest(idReporters'[k]) = sourcePath
                        THEN resolved ELSE ownerLatest[k]]
     /\ idReported' = [k \in SourceIDs |->
                      IF RealID(sourceID) /\ k = sourceID THEN resolved ELSE idReported[k]]

\* ------------------------------------------------------------------ remove


\* variant: an absent key takes the last entry with it, as splice(indexOf(key), 1) would
RemoveFileSplice(map, sourcePath) ==
  IF MapHas(map, sourcePath) THEN MapDelete(map, sourcePath)
  ELSE IF map = <<>> THEN map ELSE SubSeq(map, 1, Len(map) - 1)

\* variant: the entry is emptied and stays in the map
RemoveFileKeepsEntry(map, sourcePath) ==
  IF MapHas(map, sourcePath) THEN MapSet(map, sourcePath, <<>>) ELSE map

RemoveFile(map, sourcePath) ==
  IF MapHas(map, sourcePath) THEN MapDelete(map, sourcePath) ELSE map

RemoveID(map, sourceID) ==
  IF sourceID # Undefined /\ MapHas(map, sourceID) THEN MapDelete(map, sourceID) ELSE map

\* the history of an ID starts afresh when a remove call carries the ID
Forget(past, sourceID) ==
  [k \in SourceIDs |-> IF RealID(sourceID) /\ k = sourceID THEN <<>> ELSE past[k]]

Remove(sourcePath, sourceID) ==
  LET id == NormalizeID(sourceID)
  IN /\ fileLinkDatabase' = RemoveFile(fileLinkDatabase, sourcePath)
     /\ idLinkDatabase' = RemoveID(idLinkDatabase, id)
     /\ last' = Call("remove", sourcePath, <<>>, sourceID, NoGraph,
                      BroadcastLinks(fileLinkDatabase, idLinkDatabase,
                                     fileLinkDatabase', idLinkDatabase'),
                      NoResult)
     /\ addedOrder' = Without(addedOrder, sourcePath)
     /\ idReporters' = Forget(idReporters, sourceID)
     /\ ownerLatest' = Forget(ownerLatest, sourceID)
     /\ idReported' = Forget(idReported, sourceID)
     /\ UNCHANGED firstReported

\* --------------------------------------------------------- the two queries
RECURSIVE InboundFrom(_, _, _, _)
\* the scan over this._fileLinkDatabase.entries()
InboundFrom(map, sourceFilePath, i, sourceFiles) ==
  IF i > Len(map) THEN sourceFiles
  ELSE InboundFrom(map, sourceFilePath, i + 1,
         IF \E j \in 1..Len(map[i].value) : map[i].value[j] = sourceFilePath
           THEN Append(sourceFiles, map[i].key) ELSE sourceFiles)

retrieveInbound(map, sourceFilePath) == InboundFrom(map, sourceFilePath, 1, <<>>)

\* this._fileLinkDatabase.get(sourceFilePath) ?? []
retrieveOutbound(map, sourceFilePath) ==
  IF MapHas(map, sourceFilePath) THEN MapGet(map, sourceFilePath) ELSE <<>>

RetrieveInbound(sourceFilePath) ==
  /\ last' = Call("retrieveInbound", sourceFilePath, <<>>, Undefined, NoGraph, <<>>,
                   [kind |-> "list",
                    list |-> retrieveInbound(fileLinkDatabase, sourceFilePath)])
  /\ UNCHANGED <<fileLinkDatabase, idLinkDatabase, history>>


\* variant: a file without an entry is given an empty one on the way
RetrieveOutboundCreates(sourceFilePath) ==
  /\ last' = Call("retrieveOutbound", sourceFilePath, <<>>, Undefined, NoGraph, <<>>,
                   [kind |-> "list",
                    list |-> retrieveOutbound(fileLinkDatabase, sourceFilePath)])
  /\ fileLinkDatabase' = IF MapHas(fileLinkDatabase, sourceFilePath) THEN fileLinkDatabase
                         ELSE MapSet(fileLinkDatabase, sourceFilePath, <<>>)
  /\ UNCHANGED <<idLinkDatabase, history>>

RetrieveOutbound(sourceFilePath) ==
  /\ last' = Call("retrieveOutbound", sourceFilePath, <<>>, Undefined, NoGraph, <<>>,
                   [kind |-> "list",
                    list |-> retrieveOutbound(fileLinkDatabase, sourceFilePath)])
  /\ UNCHANGED <<fileLinkDatabase, idLinkDatabase, history>>

\* -------------------------------------------------------------- buildGraph
\* graph.nodes.find(vertex => vertex.id === id): the position of the first
\* vertex with that id, 0 for undefined
Find(nodes, id) ==
  IF \E i \in 1..Len(nodes) : nodes[i].id = id
    THEN CHOOSE i \in 1..Len(nodes) :
           nodes[i].id = id /\ \A j \in 1..(i - 1) : nodes[j].id # id
    ELSE 0

\* the vertex pushed for a file that has no vertex yet
NewVertex(file) ==
  [id |-> file, label |-> Basename(file), component |-> NONE_COMPONENT, isolate |-> TRUE]


\* variant: a target that occurs several times gets one arc
EdgesOfDistinct(file, outbound) ==
  LET firsts == SelectSeq([j \in 1..Len(outbound) |-> j],
                          LAMBDA j : \A l \in 1..(j - 1) : outbound[l] # outbound[j])
  IN [j \in 1..Len(firsts) |->
        [source |-> file, target |-> outbound[firsts[j]], weight |-> 1]]

\* graph.links.push({ source: file, target: target, weight: 1 }) per target
EdgesOf(file, outbound) ==
  [j \in 1..Len(outbound) |-> [source |-> file, target |-> outbound[j], weight |-> 1]]

RECURSIVE CollectFrom(_, _, _)
\* the loop over this._fileLinkDatabase that fills graph.nodes and graph.links
CollectFrom(map, i, graph) ==
  IF i > Len(map) THEN graph
  ELSE LET file     == map[i].key
           outbound == map[i].value
           nodes    == IF Find(graph.nodes, file) = 0
                         THEN Append(graph.nodes, NewVertex(file))
                         ELSE graph.nodes
       IN CollectFrom(map, i + 1,
            [graph EXCEPT !.nodes = nodes, !.links = graph.links \o EdgesOf(file, outbound)])

RECURSIVE DistinctFrom(_, _, _)
\* new Set(array): the distinct values in the order of their first occurrence
DistinctFrom(array, i, seen) ==
  IF i > Len(array) THEN seen
  ELSE DistinctFrom(array, i + 1,
         IF \E j \in 1..Len(seen) : seen[j] = array[i] THEN seen ELSE Append(seen, array[i]))

Distinct(array) == DistinctFrom(array, 1, <<>>)

RECURSIVE MarkFrom(_, _, _)
\* for (const id of ids): find the node, throw if there is none, else clear
\* its isolate flag
MarkFrom(ids, i, st) ==
  IF st.error \/ i > Len(ids) THEN st
  ELSE LET n == Find(st.nodes, ids[i])
       IN IF n = 0
            THEN [st EXCEPT !.error = TRUE]
            ELSE MarkFrom(ids, i + 1, [st EXCEPT !.nodes[n].isolate = FALSE])

\* variant: the isolate pass forgets the targets
MarkIsolatesSourcesOnly(graph) ==
  LET sources == Distinct([j \in 1..Len(graph.links) |-> graph.links[j].source])
      targets == Distinct([j \in 1..Len(graph.links) |-> graph.links[j].target])
      afterSources == MarkFrom(sources, 1, [nodes |-> graph.nodes, error |-> FALSE])
  IN [afterSources EXCEPT !.error = \E j \in 1..Len(targets) : Find(graph.nodes, targets[j]) = 0]

\* the isolate pass: the sources first, then the targets
MarkIsolates(graph) ==
  LET sources == Distinct([j \in 1..Len(graph.links) |-> graph.links[j].source])
      targets == Distinct([j \in 1..Len(graph.links) |-> graph.links[j].target])
      afterSources == MarkFrom(sources, 1, [nodes |-> graph.nodes, error |-> FALSE])
  IN MarkFrom(targets, 1, afterSources)

\* ------------------------------------------------------ identifyComponents
\* variant: only the arcs that leave the vertex are followed
AllTargetsOutgoing(nodes, links, id) ==
  LET incident == SelectSeq(links, LAMBDA link : link.source = id)
  IN [j \in 1..Len(incident) |-> Find(nodes, incident[j].target)]

\* the opposite ends of the arcs that have the vertex as head or tail, in
\* arc order, each resolved with nodes.find (0 for undefined)
AllTargets(nodes, links, id) ==
  LET incident == SelectSeq(links, LAMBDA link : link.source = id \/ link.target = id)
  IN [j \in 1..Len(incident) |->
        Find(nodes, IF incident[j].target = id THEN incident[j].source
                                               ELSE incident[j].target)]

RECURSIVE Visit(_, _, _, _)
RECURSIVE VisitAll(_, _, _, _, _)
\* visit(source, component); st carries the nodes, the components array and
\* whether reading source.component of undefined has thrown
Visit(st, links, source, component) ==
  IF st.error THEN st
  ELSE IF source = 0 THEN [st EXCEPT !.error = TRUE]
  ELSE IF st.nodes[source].component # NONE_COMPONENT
          \/ st.nodes[source].component = component
    THEN st
  ELSE LET name == IF component = Undefined
                     THEN ComponentName(Len(st.components) + 1)
                     ELSE component
           st1  == [st EXCEPT
                      !.components = IF component = Undefined THEN Append(@, name) ELSE @,
                      !.nodes[source].component = name]
       IN VisitAll(st1, links, AllTargets(st.nodes, links, st.nodes[source].id), 1, name)

\* for (const target of allTargets) visit(target, component)
VisitAll(st, links, allTargets, i, component) ==
  IF st.error \/ i > Len(allTargets) THEN st
  ELSE VisitAll(Visit(st, links, allTargets[i], component), links, allTargets, i + 1, component)

RECURSIVE VisitEach(_, _, _)
\* graph.nodes.forEach(node => visit(node))
VisitEach(st, links, idx) ==
  IF st.error \/ idx > Len(st.nodes) THEN st
  ELSE VisitEach(Visit(st, links, idx, Undefined), links, idx + 1)


RECURSIVE VisitEachDown(_, _, _)
VisitEachDown(st, links, idx) ==
  IF st.error \/ idx < 1 THEN st
  ELSE VisitEachDown(Visit(st, links, idx, Undefined), links, idx - 1)

\* variant: the top-level visits run from the last node to the first
identifyComponentsBackwards(nodes, links) ==
  VisitEachDown([nodes |-> nodes, components |-> <<>>, error |-> FALSE], links, Len(nodes))

\* the labelled nodes, the components array, and whether the call threw
identifyComponents(nodes, links) ==
  VisitEach([nodes |-> nodes, components |-> <<>>, error |-> FALSE], links, 1)

ErrorResult == [kind |-> "error", message |-> "Didnt find node"]

TypeErrorResult == [kind |-> "error", message |-> "TypeError"]

\* variant: a missing node is skipped and the graph is handed out as it stands
buildGraphPartial(map) ==
  LET collected == CollectFrom(map, 1, [nodes |-> <<>>, links |-> <<>>])
      marked    == MarkIsolates(collected)
  IN [kind |-> "graph", nodes |-> marked.nodes, links |-> collected.links,
      components |-> <<>>]

\* what buildGraph hands to its caller
buildGraph(map) ==
  LET collected == CollectFrom(map, 1, [nodes |-> <<>>, links |-> <<>>])
      marked    == MarkIsolates(collected)
      labelled  == identifyComponents(marked.nodes, collected.links)
  IN IF marked.error THEN ErrorResult
     ELSE IF labelled.error THEN TypeErrorResult
     ELSE [kind |-> "graph", nodes |-> labelled.nodes, links |-> collected.links,
           components |-> labelled.components]

BuildGraph ==
  /\ last' = Call("buildGraph", Undefined, <<>>, Undefined, NoGraph, <<>>,
                   buildGraph(fileLinkDatabase))
  /\ UNCHANGED <<fileLinkDatabase, idLinkDatabase, history>>

\* identifyComponents called on the graph the caller holds
IdentifyComponents ==
  LET nodes    == last.graph.nodes
      links    == last.graph.links
      labelled == identifyComponents(nodes, links)
  IN /\ last.op = "graph"
     /\ last' = Call("identifyComponents", Undefined, <<>>, Undefined, last.graph, <<>>,
                      IF labelled.error THEN TypeErrorResult
                      ELSE [kind |-> "graph", nodes |-> labelled.nodes, links |-> links,
                            components |-> labelled.components])
     /\ UNCHANGED <<fileLinkDatabase, idLinkDatabase, history>>

\* -------------------------------------------------------------- the system
Init ==
  /\ fileLinkDatabase = <<>>
  /\ idLinkDatabase = <<>>
  /\ last = Call("constructor", Undefined, <<>>, Undefined, NoGraph, <<>>, NoResult)
  /\ firstReported = <<>>
  /\ addedOrder = <<>>
  /\ idReporters = [k \in SourceIDs |-> <<>>]
  /\ ownerLatest = [k \in SourceIDs |-> <<>>]
  /\ idReported = [k \in SourceIDs |-> <<>>]

Next ==
  \/ \E p \in Paths, links \in SeqsUpTo(Tokens, MaxLinks) : Report(p, links, Undefined)
  \/ \E p \in Paths : Remove(p, Undefined)
  \/ \E p \in Paths : RetrieveInbound(p)
  \/ \E p \in Paths : RetrieveOutbound(p)
  \/ BuildGraph

Spec == Init /\ [][Next]_vars

\* the same provider driven with source IDs
NextIndex ==
  \/ \E p \in IndexPaths, links \in IndexLinks, id \in SourceIDs : Report(p, links, id)
  \/ \E p \in IndexPaths, id \in SourceIDs : Remove(p, id)

SpecIndex == Init /\ [][NextIndex]_vars


\* the same, with the queries
NextQueries ==
  \/ \E p \in IndexPaths, links \in IndexLinks, id \in SourceIDs : Report(p, links, id)
  \/ \E p \in IndexPaths, id \in SourceIDs : Remove(p, id)
  \/ \E p \in IndexPaths : RetrieveInbound(p)
  \/ \E p \in Paths : RetrieveOutbound(p)
  \/ BuildGraph

SpecQueries == Init /\ [][NextQueries]_vars

\* the same provider driven with links to files that may never report
NextTargets ==
  \/ \E p \in Paths, links \in TargetLinks : Report(p, links, Undefined)
  \/ \E p \in Paths : Remove(p, Undefined)
  \/ BuildGraph

SpecTargets == Init /\ [][NextTargets]_vars

\* identifyComponents on its own, over every small graph: the vertices are
\* fresh ones of distinct files in any order, the arcs any arcs between files
VertexLists ==
  {nodes \in SeqsUpTo(GraphFiles, Cardinality(GraphFiles)) :
     \A i, j \in 1..Len(nodes) : i # j => nodes[i] # nodes[j]}

Arcs == {[source |-> u, target |-> v, weight |-> 1] : u, v \in GraphFiles}

\* the caller holds some such graph
InitComponents ==
  /\ fileLinkDatabase = <<>>
  /\ idLinkDatabase = <<>>
  /\ \E files \in VertexLists, links \in SeqsUpTo(Arcs, MaxArcs) :
       last = Call("graph", Undefined, <<>>, Undefined,
                   [nodes |-> [i \in 1..Len(files) |-> NewVertex(files[i])], links |-> links],
                   <<>>, NoResult)
  /\ firstReported = <<>>
  /\ addedOrder = <<>>
  /\ idReporters = [k \in SourceIDs |-> <<>>]
  /\ ownerLatest = [k \in SourceIDs |-> <<>>]
  /\ idReported = [k \in SourceIDs |-> <<>>]

NextComponents == IdentifyComponents

SpecComponents == InitComponents /\ [][NextComponents]_vars


\* --------------------------------------------------------- sortDirectories
\* strings are sequences of UTF-16 code units: 'B' = 66, '_' = 95, 'b' = 98
NameUnits == {66, 95, 98}

\* '/p' and '/q'
DirNames == {<<47, 112>>, <<47, 113>>}

DirMetas ==
  {[name |-> name, dir |-> dir] :
     name \in SeqsUpTo(NameUnits, MaxNameLen) \ {<<>>}, dir \in DirNames}

\* the sortBy argument: omitted, the two documented values, some other string
SortBys == {Undefined, "AlphaA", "AlphaD", "AlphaX"}

\* String.prototype.toLowerCase on basic Latin
toLowerCase(str) ==
  [i \in 1..Len(str) |-> IF str[i] >= 65 /\ str[i] <= 90 THEN str[i] + 32 ELSE str[i]]

\* the < of two strings: by code units, a proper prefix first
StringLess(s, t) ==
  \E k \in 1..(Len(t)) :
    /\ \A i \in 1..(k - 1) : i <= Len(s) /\ s[i] = t[i]
    /\ k > Len(s) \/ (k <= Len(s) /\ s[k] < t[k])
    /\ k - 1 <= Len(s)

\* variant: the comparator of an earlier revision, whose branches both give 1
compareByAlphaOneSided(a, b, sortBy) ==
  LET nameA == toLowerCase(a.name)
      nameB == toLowerCase(b.name)
      compareResult ==
        IF nameA = nameB
          THEN (IF StringLess(a.dir, b.dir) THEN 1 ELSE -1)
          ELSE (IF StringLess(nameA, nameB) THEN 1 ELSE 1)
  IN compareResult * (IF sortBy = "AlphaA" THEN 1 ELSE -1)

\* compareByAlpha, with the sortBy of the enclosing call
compareByAlpha(a, b, sortBy) ==
  LET nameA == toLowerCase(a.name)
      nameB == toLowerCase(b.name)
      compareResult ==
        IF nameA = nameB
          THEN (IF StringLess(a.dir, b.dir) THEN -1
                ELSE IF StringLess(b.dir, a.dir) THEN 1 ELSE 0)
          ELSE (IF StringLess(nameA, nameB) THEN -1
                ELSE IF StringLess(nameB, nameA) THEN 1 ELSE 0)
  IN compareResult * (IF sortBy = "AlphaA" THEN 1 ELSE -1)

\* the default of the sortBy parameter
SortByOrDefault(sortBy) == IF sortBy = Undefined THEN "AlphaA" ELSE sortBy

\* Array.prototype.sort on two elements: they change places when the
\* comparator puts the first after the second
SortPair(dirArray, sortBy) ==
  IF compareByAlpha(dirArray[1], dirArray[2], sortBy) > 0
    THEN <<dirArray[2], dirArray[1]>>
    ELSE dirArray

sortDirectories(dirArray, sortBy) == SortPair(dirArray, SortByOrDefault(sortBy))

\* the record of a sortDirectories call and of the comparisons under its sortBy
SortCall(op, dirArray, sortBy, compared, result) ==
  [op |-> op, dirArray |-> dirArray, sortBy |-> sortBy, compared |-> compared,
   result |-> result]

SortDirectories ==
  LET a == last.dirArray[1]
      b == last.dirArray[2]
      sortBy == SortByOrDefault(last.sortBy)
  IN /\ last.op = "dirArray"
     /\ last' = SortCall("sortDirectories", last.dirArray, last.sortBy,
                         [ab |-> compareByAlpha(a, b, sortBy),
                          ba |-> compareByAlpha(b, a, sortBy)],
                         sortDirectories(last.dirArray, last.sortBy))
     /\ UNCHANGED <<fileLinkDatabase, idLinkDatabase, history>>

\* the caller holds two directories and may or may not pass a sortBy
InitSort ==
  /\ fileLinkDatabase = <<>>
  /\ idLinkDatabase = <<>>
  /\ \E a, b \in DirMetas, sortBy \in SortBys :
       last = SortCall("dirArray", <<a, b>>, sortBy, [ab |-> 0, ba |-> 0], <<>>)
  /\ firstReported = <<>>
  /\ addedOrder = <<>>
  /\ idReporters = [k \in SourceIDs |-> <<>>]
  /\ ownerLatest = [k \in SourceIDs |-> <<>>]
  /\ idReported = [k \in SourceIDs |-> <<>>]

NextSort == SortDirectories

SpecSort == InitSort /\ [][NextSort]_vars

\* ------------------------------------------------- the claims: vocabulary
EntryOf(file, outbound) == [key |-> file, value |-> outbound]

\* some recorded link leads to a file that has no entry of its own
MissingEndpoint(map) ==
  \E i \in 1..Len(map) : \E j \in 1..Len(map[i].value) : ~MapHas(map, map[i].value[j])

NodeIds(nodes) == {nodes[i].id : i \in 1..Len(nodes)}

\* every arc starts and ends at a vertex
EdgesReferenceNodes(graph) ==
  \A j \in 1..Len(graph.links) :
    /\ graph.links[j].source \in NodeIds(graph.nodes)
    /\ graph.links[j].target \in NodeIds(graph.nodes)

\* some arc starts or ends at the vertex
Incident(links, id) ==
  \E j \in 1..Len(links) : links[j].source = id \/ links[j].target = id

\* some arc joins the two vertices, in either direction
Adjacent(links, u, v) ==
  \E j \in 1..Len(links) :
    \/ links[j].source = u /\ links[j].target = v
    \/ links[j].source = v /\ links[j].target = u

RECURSIVE Reachable(_, _, _)
\* the vertices an undirected path leads to from the set S
Reachable(ids, links, S) ==
  LET grown == S \cup {v \in ids : \E u \in S : Adjacent(links, u, v)}
  IN IF grown = S THEN S ELSE Reachable(ids, links, grown)

Connected(ids, links, u, v) == v \in Reachable(ids, links, {u})

ReturnedGraph == last.op = "buildGraph" /\ last.result.kind = "graph"

\* ------------------------------------------------------------- C1 (Spec)
\* C1: buildGraph, called in any state that report and remove calls lead to,
\* returns a graph and never raises 'Didnt find node': every file that occurs
\* as the source or the target of a collected arc has a vertex.
C1_BuildGraphNeverThrows ==
  last.op = "buildGraph" =>
    /\ last.result.kind = "graph"
    /\ EdgesReferenceNodes(last.result)

\* ------------------------------------------------------ C2 (SpecTargets)
\* C2: after report(a,[b]) and report(c,[b]) with b never reporting, buildGraph
\* returns the nodes a, b and c, all three in one component; after
\* report(a,[b]) and report(c,[d]) it returns four nodes, two arcs and two
\* components of two nodes each.
C2_TargetsGetNodes ==
  /\ ( /\ last.op = "buildGraph"
       /\ fileLinkDatabase = <<EntryOf("/n/a.md", <<"/n/b.md">>),
                               EntryOf("/n/c.md", <<"/n/b.md">>)>> )
     => /\ last.result.kind = "graph"
        /\ NodeIds(last.result.nodes) = {"/n/a.md", "/n/b.md", "/n/c.md"}
        /\ \A i, j \in 1..Len(last.result.nodes) :
             last.result.nodes[i].component = last.result.nodes[j].component
  /\ ( /\ last.op = "buildGraph"
       /\ fileLinkDatabase = <<EntryOf("/n/a.md", <<"/n/b.md">>),
                               EntryOf("/n/c.md", <<"/n/d.md">>)>> )
     => /\ last.result.kind = "graph"
        /\ Len(last.result.nodes) = 4
        /\ Len(last.result.links) = 2
        /\ Len(last.result.components) = 2
        /\ \A k \in 1..2 :
             Cardinality({i \in 1..Len(last.result.nodes) :
                            last.result.nodes[i].component = last.result.components[k]}) = 2

\* ------------------------------------------------------------- C3 (Spec)
\* C3: a buildGraph call that meets an arc end without a vertex ends in an
\* error, hands no graph to its caller, and leaves both databases as they were.
C3_MissingNodeAborts ==
  [][ (last'.op = "buildGraph" /\ MissingEndpoint(fileLinkDatabase))
        => /\ last'.result.kind = "error"
           /\ DOMAIN last'.result = {"kind", "message"}
           /\ fileLinkDatabase' = fileLinkDatabase
           /\ idLinkDatabase' = idLinkDatabase ]_vars

C3_Witness ==
  /\ last.op = "buildGraph"
  /\ last.result.kind = "error"
  /\ MissingEndpoint(fileLinkDatabase)
  /\ Len(fileLinkDatabase) = 2

\* ------------------------------------------------------------- C4 (Spec)
\* C4: in a graph that buildGraph returns, a node is an isolate exactly when
\* no arc starts or ends at it; a self-loop counts as such an arc.
C4_IsolateIffNoArc ==
  ReturnedGraph =>
    \A i \in 1..Len(last.result.nodes) :
      last.result.nodes[i].isolate <=> ~Incident(last.result.links, last.result.nodes[i].id)

\* a returned graph with an isolate, a node that is only a target, and a self-loop
C4_Witness ==
  /\ ReturnedGraph
  /\ \E i, j, k \in 1..Len(last.result.nodes) :
       /\ last.result.nodes[i].isolate
       /\ ~last.result.nodes[j].isolate
       /\ \A l \in 1..Len(last.result.links) :
            last.result.links[l].source # last.result.nodes[j].id
       /\ \E l \in 1..Len(last.result.links) :
            /\ last.result.links[l].source = last.result.nodes[k].id
            /\ last.result.links[l].target = last.result.nodes[k].id

\* --------------------------------------------------- C5 (SpecComponents)
\* C5: identifyComponents, on a graph whose arcs all start and end at
\* vertices, gives every node a component other than the sentinel, and gives
\* two nodes the same component exactly when an undirected path of arcs joins
\* them; a node without arcs is alone in its component.
C5_ComponentsPartition ==
  (last.op = "identifyComponents" /\ EdgesReferenceNodes(last.graph)) =>
    /\ last.result.kind = "graph"
    /\ Len(last.result.nodes) = Len(last.graph.nodes)
    /\ \A i \in 1..Len(last.result.nodes) :
         /\ last.result.nodes[i].id = last.graph.nodes[i].id
         /\ last.result.nodes[i].component # NONE_COMPONENT
         /\ \E k \in 1..Len(last.result.components) :
              last.result.components[k] = last.result.nodes[i].component
    /\ \A i, j \in 1..Len(last.result.nodes) :
         (last.result.nodes[i].component = last.result.nodes[j].component)
           <=> Connected(NodeIds(last.graph.nodes), last.graph.links,
                         last.result.nodes[i].id, last.result.nodes[j].id)

\* three nodes; two arcs run into the same node, which is listed first, a
\* third arc is a self-loop
C5_Witness ==
  /\ last.op = "identifyComponents"
  /\ EdgesReferenceNodes(last.graph)
  /\ last.result.kind = "graph"
  /\ Len(last.result.nodes) = 3
  /\ Len(last.result.components) = 1
  /\ \E j, k, l \in 1..Len(last.graph.links) :
       /\ j # k
       /\ last.graph.links[j].target = last.graph.nodes[1].id
       /\ last.graph.links[k].target = last.graph.nodes[1].id
       /\ last.graph.links[j].source = last.graph.nodes[2].id
       /\ last.graph.links[k].source = last.graph.nodes[3].id
       /\ last.graph.links[l].source = last.graph.links[l].target

\* --------------------------------------------------------- C6 (SpecIndex)
\* C6: for every ID that is a key of the ID database, the links stored under
\* it are those of the latest report made by the file that last reported
\* under that ID, also when that latest report carried no ID or another one.
C6_IDMirrorsOwnersLatestReport ==
  \A k \in MapKeys(idLinkDatabase) : MapGet(idLinkDatabase, k) = ownerLatest[k]

\* C6, amended: for every ID that is a key of the ID database, the links
\* stored under it are those resolved by the latest report that carried that
\* ID; later reports of the same file without the ID or under another ID, and
\* removals that do not carry the ID, leave them as they are.
C6_IDMirrorsLatestReportUnderID ==
  \A k \in SourceIDs :
    /\ MapHas(idLinkDatabase, k) <=> idReporters[k] # <<>>
    /\ MapHas(idLinkDatabase, k) => MapGet(idLinkDatabase, k) = idReported[k]

\* the file that last reported under X has just reported other links without
\* an ID, and X still holds the older ones
C6_Witness ==
  /\ last.op = "report"
  /\ ~RealID(last.sourceID)
  /\ MapHas(idLinkDatabase, "X")
  /\ Latest(idReporters["X"]) = last.sourcePath
  /\ MapGet(idLinkDatabase, "X") # MapGet(fileLinkDatabase, last.sourcePath)
  /\ MapGet(idLinkDatabase, "X") # <<>>

\* --------------------------------------------------------- C7 (SpecIndex)
\* C7: when two or more files have reported under one ID, a remove call for
\* one of them with that ID leaves no links on record for any of them, neither
\* in the ID database nor in the file database.
C7_RemoveDeletesAllUnderID ==
  [][ ( /\ last'.op = "remove"
        /\ RealID(last'.sourceID)
        /\ Len(idReporters[last'.sourceID]) >= 2
        /\ Has(idReporters[last'.sourceID], last'.sourcePath) )
      => /\ ~MapHas(idLinkDatabase', last'.sourceID)
         /\ \A i \in 1..Len(idReporters[last'.sourceID]) :
              ~MapHas(fileLinkDatabase', idReporters[last'.sourceID][i]) ]_vars

\* --------------------------------------------------------- C8 (SpecIndex)
\* C8: report(p, links, id) changes the file database only at p and the ID
\* database only at id: every other entry of either keeps its links and its
\* place, in particular the entry of another file that reported under the same
\* id, while the entry of id becomes the newly resolved links in full; with an
\* id that is absent or empty the ID database does not change at all.
C8_ReportFrame ==
  [][ last'.op = "report" =>
        LET p  == last'.sourcePath
            id == last'.sourceID
        IN /\ Without(MapOrder(fileLinkDatabase'), p) = Without(MapOrder(fileLinkDatabase), p)
           /\ \A q \in MapKeys(fileLinkDatabase) \ {p} :
                MapGet(fileLinkDatabase', q) = MapGet(fileLinkDatabase, q)
           /\ Without(MapOrder(idLinkDatabase'), id) = Without(MapOrder(idLinkDatabase), id)
           /\ \A k \in MapKeys(idLinkDatabase) \ {id} :
                MapGet(idLinkDatabase', k) = MapGet(idLinkDatabase, k)
           /\ ~RealID(id) => idLinkDatabase' = idLinkDatabase
           /\ RealID(id) => /\ MapHas(idLinkDatabase', id)
                            /\ MapGet(idLinkDatabase', id) = MapGet(fileLinkDatabase', p) ]_vars

\* a report under X by one file, while the other file, which reported under X
\* before, keeps other links in the file database, and Y keeps its entry
C8_Witness ==
  /\ last.op = "report"
  /\ last.sourceID = "X"
  /\ Len(idReporters["X"]) = 2
  /\ MapHas(idLinkDatabase, "Y")
  /\ \E q \in MapKeys(fileLinkDatabase) :
       /\ q # last.sourcePath
       /\ MapGet(fileLinkDatabase, q) # MapGet(idLinkDatabase, "X")
       /\ MapGet(fileLinkDatabase, q) # <<>>

\* -------------------------------------------------------------- C9 (Spec)
\* the links that resolve, in their order, each replaced by its file
ResolvedLinks(outboundLinks) ==
  LET hits == SelectSeq(outboundLinks, LAMBDA link : FindExact(link).found)
  IN [i \in 1..Len(hits) |-> FindExact(hits[i]).path]

\* C9: what report stores for a file is the files its links resolve to, in the
\* order of the links and with repetitions kept; the links that do not resolve
\* are left out, and the call ends without an error however many those are.
C9_StoresResolvedInOrder ==
  last.op = "report" =>
    /\ last.result = NoResult
    /\ MapHas(fileLinkDatabase, last.sourcePath)
    /\ MapGet(fileLinkDatabase, last.sourcePath) = ResolvedLinks(last.outboundLinks)
    /\ RealID(last.sourceID) =>
         /\ MapHas(idLinkDatabase, last.sourceID)
         /\ MapGet(idLinkDatabase, last.sourceID) = ResolvedLinks(last.outboundLinks)

\* a report of two links of which the first does not resolve
C9_Witness ==
  /\ last.op = "report"
  /\ Len(last.outboundLinks) = 2
  /\ ~FindExact(last.outboundLinks[1]).found
  /\ FindExact(last.outboundLinks[2]).found
  /\ Len(MapGet(fileLinkDatabase, last.sourcePath)) = 1

\* ------------------------------------------------------------- C10 (Spec)
\* the files of the sequence that now link to the target, in their order
LinkingIn(order, target) ==
  SelectSeq(order, LAMBDA file :
    /\ MapHas(fileLinkDatabase, file)
    /\ Has(MapGet(fileLinkDatabase, file), target))

\* C10: retrieveInbound(t) returns the files whose current links contain t,
\* each once, in the order in which the files were first reported.
C10_InboundInFirstReportOrder ==
  last.op = "retrieveInbound" =>
    last.result.list = LinkingIn(firstReported, last.sourcePath)

\* C10, amended: retrieveInbound(t) returns the files whose current links
\* contain t, each once, in the order in which the files entered the file
\* database: a file takes its place with its first report, keeps it through
\* later reports, and goes to the end when it is reported again after a remove.
C10_InboundInInsertionOrder ==
  last.op = "retrieveInbound" =>
    /\ last.result.list = LinkingIn(addedOrder, last.sourcePath)
    /\ \A i, j \in 1..Len(last.result.list) :
         i # j => last.result.list[i] # last.result.list[j]
    /\ \A file \in Paths :
         Has(last.result.list, file) <=>
           Has(retrieveOutbound(fileLinkDatabase, file), last.sourcePath)

\* two files link to the target; the one that reported first was removed and
\* reported again, so it comes second
C10_Witness ==
  /\ last.op = "retrieveInbound"
  /\ Len(last.result.list) = 2
  /\ \E i, j \in 1..Len(firstReported) :
       /\ i < j
       /\ firstReported[i] = last.result.list[2]
       /\ firstReported[j] = last.result.list[1]

\* -------------------------------------------------------- C11 (SpecIndex)
\* C11: a remove(p, id) that comes right after a report(p, links, id) leaves
\* retrieveOutbound(p) empty and the file database without an entry for p, so
\* that a graph built next has no node for p.
C11_RemoveAfterReport ==
  [][ ( /\ last.op = "report"
        /\ last'.op = "remove"
        /\ last'.sourcePath = last.sourcePath
        /\ last'.sourceID = last.sourceID )
      => /\ retrieveOutbound(fileLinkDatabase', last'.sourcePath) = <<>>
         /\ ~MapHas(fileLinkDatabase', last'.sourcePath)
         /\ buildGraph(fileLinkDatabase').kind = "graph"
              => last'.sourcePath \notin NodeIds(buildGraph(fileLinkDatabase').nodes) ]_vars

\* the one file that ever reported, with links and under an ID, has been removed
C11_Witness ==
  /\ last.op = "remove"
  /\ RealID(last.sourceID)
  /\ firstReported = <<last.sourcePath>>
  /\ ownerLatest[last.sourceID] = <<>>
  /\ fileLinkDatabase = <<>>
  /\ idLinkDatabase = <<>>

\* -------------------------------------------------------- C12 (SpecIndex)
\* C12: a report call that repeats the one before it, argument for argument,
\* leaves both databases, the order of the file database included, as the
\* first call left them.
C12_ReportIdempotent ==
  [][ ( /\ last.op = "report"
        /\ last'.op = "report"
        /\ last'.sourcePath = last.sourcePath
        /\ last'.outboundLinks = last.outboundLinks
        /\ last'.sourceID = last.sourceID )
      => /\ fileLinkDatabase' = fileLinkDatabase
         /\ idLinkDatabase' = idLinkDatabase ]_vars

\* a report with links and an ID for the file that is first of two in the
\* file database: the state in which the same report can be made again
C12_Witness ==
  /\ last.op = "report"
  /\ RealID(last.sourceID)
  /\ Len(fileLinkDatabase) = 2
  /\ fileLinkDatabase[1].key = last.sourcePath
  /\ fileLinkDatabase[1].value # <<>>
  /\ ENABLED Report(last.sourcePath, last.outboundLinks, last.sourceID)

\* -------------------------------------------------------- C13 (SpecIndex)
\* C13: remove never fails; called for a file without an entry and with an ID
\* that is absent, empty or not a key, it leaves both databases as they are;
\* and a remove call that repeats the one before it leaves them as the first
\* call left them.
C13_RemoveIdempotent ==
  [][ last'.op = "remove" =>
        /\ last'.result = NoResult
        /\ ( /\ ~MapHas(fileLinkDatabase, last'.sourcePath)
             /\ ~RealID(last'.sourceID) \/ ~MapHas(idLinkDatabase, last'.sourceID) )
           => /\ fileLinkDatabase' = fileLinkDatabase
              /\ idLinkDatabase' = idLinkDatabase
        /\ ( /\ last.op = "remove"
             /\ last'.sourcePath = last.sourcePath
             /\ last'.sourceID = last.sourceID )
           => /\ fileLinkDatabase' = fileLinkDatabase
              /\ idLinkDatabase' = idLinkDatabase ]_vars

\* a remove without an ID for a file that never reported, with entries of
\* other files and IDs on record
C13_Witness ==
  /\ last.op = "remove"
  /\ ~RealID(last.sourceID)
  /\ ~Has(firstReported, last.sourcePath)
  /\ fileLinkDatabase # <<>>
  /\ idLinkDatabase # <<>>

\* ------------------------------------------------------ C14 (SpecQueries)
\* C14: every report and every remove sends the 'links' message exactly once,
\* and sends it when both databases already hold what the call leaves in them,
\* also when the call changes nothing; retrieveInbound, retrieveOutbound and
\* buildGraph send no message.
C14_OneBroadcastAfterMutation ==
  /\ last.op \in {"report", "remove"} =>
       /\ Len(last.broadcast) = 1
       /\ last.broadcast[1].topic = "links"
       /\ last.broadcast[1].fileLinkDatabase = fileLinkDatabase
       /\ last.broadcast[1].idLinkDatabase = idLinkDatabase
  /\ last.op \in {"retrieveInbound", "retrieveOutbound", "buildGraph"} =>
       last.broadcast = <<>>

\* a remove that finds nothing to delete, while entries are on record, has
\* sent its message
C14_Witness ==
  /\ last.op = "remove"
  /\ last.sourceID = "Y"
  /\ ~Has(firstReported, last.sourcePath)
  /\ MapKeys(idLinkDatabase) = {"X"}
  /\ fileLinkDatabase # <<>>
  /\ Len(last.broadcast) = 1

\* --------------------------------------------------- C15 (SpecComponents)
\* the position of the first node that an undirected path joins to node n
FirstOfComponent(graph, n) ==
  CHOOSE m \in 1..Len(graph.nodes) :
    /\ Connected(NodeIds(graph.nodes), graph.links, graph.nodes[m].id, graph.nodes[n].id)
    /\ \A l \in 1..(m - 1) :
         ~Connected(NodeIds(graph.nodes), graph.links, graph.nodes[l].id, graph.nodes[n].id)

ComponentFirsts(graph) == {FirstOfComponent(graph, n) : n \in 1..Len(graph.nodes)}

\* the number of the component of node n when components are counted in the
\* order of their first nodes
ComponentRank(graph, n) ==
  Cardinality({f \in ComponentFirsts(graph) : f <= FirstOfComponent(graph, n)})

\* C15: identifyComponents returns 'Component 1' .. 'Component k', in that
\* order, for the k undirected components of the graph, numbered in node
\* order: the first node is in 'Component 1', and the next number goes to the
\* component of the first node that is in none of the components before.
C15_ComponentsNumberedInNodeOrder ==
  (last.op = "identifyComponents" /\ EdgesReferenceNodes(last.graph)) =>
    /\ last.result.kind = "graph"
    /\ last.result.components =
         [k \in 1..Cardinality(ComponentFirsts(last.graph)) |-> ComponentName(k)]
    /\ \A n \in 1..Len(last.result.nodes) :
         last.result.nodes[n].component = ComponentName(ComponentRank(last.graph, n))

\* three nodes: an arc from the third to the first, the second on its own, so
\* that the third node is labelled before the second
C15_Witness ==
  /\ last.op = "identifyComponents"
  /\ last.result.kind = "graph"
  /\ Len(last.graph.nodes) = 3
  /\ Len(last.graph.links) = 1
  /\ last.graph.links[1].source = last.graph.nodes[3].id
  /\ last.graph.links[1].target = last.graph.nodes[1].id
  /\ last.result.components = <<"Component 1", "Component 2">>
  /\ last.result.nodes[3].component = "Component 1"
  /\ last.result.nodes[2].component = "Component 2"

\* ------------------------------------------------------------- C16 (Spec)
\* the targets of the arcs that leave the file, in arc order
TargetsFrom(links, file) ==
  LET leaving == SelectSeq(links, LAMBDA link : link.source = file)
  IN [j \in 1..Len(leaving) |-> leaving[j].target]

\* C16: a graph that buildGraph returns has one vertex per key of the file
\* database, in the order of the keys, and, entry after entry in that order,
\* one arc of weight 1 per recorded link, in the order of the links: repeated
\* links and links of a file to itself each have their arc, and there are as
\* many arcs as recorded links.
C16_NodesAndArcsMirrorDatabase ==
  ReturnedGraph =>
    /\ [i \in 1..Len(last.result.nodes) |-> last.result.nodes[i].id]
         = MapOrder(fileLinkDatabase)
    /\ Len(last.result.links) = TotalEdges(fileLinkDatabase)
    /\ \A j \in 1..Len(last.result.links) :
         /\ last.result.links[j].weight = 1
         /\ MapHas(fileLinkDatabase, last.result.links[j].source)
    /\ \A i \in 1..Len(fileLinkDatabase) :
         TargetsFrom(last.result.links, fileLinkDatabase[i].key) = fileLinkDatabase[i].value
    /\ \A j, k \in 1..Len(last.result.links) :
         j < k => MapIndex(fileLinkDatabase, last.result.links[j].source)
                    <= MapIndex(fileLinkDatabase, last.result.links[k].source)

\* a returned graph of several nodes in which a file links to itself twice
C16_Witness ==
  /\ ReturnedGraph
  /\ Len(last.result.nodes) >= 2
  /\ Len(last.result.links) = 2
  /\ last.result.links[1] = last.result.links[2]
  /\ last.result.links[1].source = last.result.links[1].target

\* ------------------------------------------------------ C17 (SpecQueries)
\* C17: retrieveOutbound, retrieveInbound and buildGraph, whether it returns
\* or raises, leave both databases as they are; retrieveOutbound(p) for a file
\* without an entry returns the empty sequence and creates no entry.
C17_QueriesChangeNothing ==
  [][ last'.op \in {"retrieveOutbound", "retrieveInbound", "buildGraph"} =>
        /\ fileLinkDatabase' = fileLinkDatabase
        /\ idLinkDatabase' = idLinkDatabase
        /\ (last'.op = "retrieveOutbound" /\ ~MapHas(fileLinkDatabase, last'.sourcePath))
             => /\ last'.result.list = <<>>
                /\ ~MapHas(fileLinkDatabase', last'.sourcePath) ]_vars

\* retrieveOutbound has answered for a file without an entry while other
\* entries are on record
C17_Witness ==
  /\ last.op = "retrieveOutbound"
  /\ ~MapHas(fileLinkDatabase, last.sourcePath)
  /\ last.result.list = <<>>
  /\ Len(fileLinkDatabase) = 2
  /\ idLinkDatabase # <<>>

\* ---------------------------------------------------------- C19 (SpecSort)
LowerNameA == toLowerCase(last.dirArray[1].name)

LowerNameB == toLowerCase(last.dirArray[2].name)

OppositeSigns(x, y) == (x < 0 /\ y > 0) \/ (x > 0 /\ y < 0)

\* C19: for two directories whose lower-cased names differ, compare(a, b) and
\* compare(b, a) have opposite signs; a call without sortBy sorts as 'AlphaD';
\* under 'AlphaD' compare(a, b) is negative exactly when a's lower-cased name
\* is the greater one, under 'AlphaA' exactly when it is the smaller one.
C19_ReverseAlphabeticalByDefault ==
  (last.op = "sortDirectories" /\ LowerNameA # LowerNameB) =>
    /\ OppositeSigns(last.compared.ab, last.compared.ba)
    /\ last.sortBy \in {Undefined, "AlphaD"} =>
         /\ last.compared.ab < 0 <=> StringLess(LowerNameB, LowerNameA)
         /\ ~StringLess(toLowerCase(last.result[1].name), toLowerCase(last.result[2].name))
    /\ last.sortBy = "AlphaA" =>
         /\ last.compared.ab < 0 <=> StringLess(LowerNameA, LowerNameB)
         /\ ~StringLess(toLowerCase(last.result[2].name), toLowerCase(last.result[1].name))

\* C19, amended: for two directories whose lower-cased names differ,
\* compare(a, b) and compare(b, a) have opposite signs; a call without sortBy
\* sorts as 'AlphaA', in alphabetical order; under 'AlphaA' compare(a, b) is
\* negative exactly when a's lower-cased name is the smaller one, under
\* 'AlphaD' exactly when it is the greater one.
C19_AlphabeticalByDefault ==
  (last.op = "sortDirectories" /\ LowerNameA # LowerNameB) =>
    /\ OppositeSigns(last.compared.ab, last.compared.ba)
    /\ last.sortBy = "AlphaD" =>
         /\ last.compared.ab < 0 <=> StringLess(LowerNameB, LowerNameA)
         /\ ~StringLess(toLowerCase(last.result[1].name), toLowerCase(last.result[2].name))
    /\ last.sortBy \in {Undefined, "AlphaA"} =>
         /\ last.compared.ab < 0 <=> StringLess(LowerNameA, LowerNameB)
         /\ ~StringLess(toLowerCase(last.result[2].name), toLowerCase(last.result[1].name))

\* a call without sortBy on 'B…' and '_…': the first name is the smaller one
\* as written and the greater one in lower case, and the two change places
C19_Witness ==
  /\ last.op = "sortDirectories"
  /\ last.sortBy = Undefined
  /\ StringLess(last.dirArray[1].name, last.dirArray[2].name)
  /\ StringLess(LowerNameB, LowerNameA)
  /\ last.compared.ab > 0
  /\ last.result = <<last.dirArray[2], last.dirArray[1]>>
====
